---- MODULE Spec2Model ----
(***************************************************************************)
(* qPCR Analyzer (my_module/functions.py): name normalisation, target      *)
(* filter, duplicate summary and the file pipeline.                        *)
(*                                                                         *)
(* Text is a sequence of one-character tokens.  "\n" is the line feed and  *)
(* "U0663" stands for the single character U+0663 (ARABIC-INDIC DIGIT      *)
(* THREE), a decimal digit for Python's \d on str patterns.                *)
(***************************************************************************)
EXTENDS Integers, Sequences, FiniteSets, TLC

VARIABLES
  \* calls of clean_sample_name
  stem, rep, sample_name, cleaned, pcName,
  \* the object heap: frames by identity
  heap,
  \* calls of the table functions by a caller
  orig, cur, arg, ret, snap, gArg, done, status, lastOp, outcome, parts,
  \* summarize_target_from_file
  file, target_name, df, df_target, result, pc, err, steps, runs, prev

nameVars == <<stem, rep, sample_name, cleaned, pcName>>
tableVars == <<orig, cur, arg, ret, snap, gArg, done, status, lastOp, outcome, parts>>
pipeVars == <<file, target_name, df, df_target, result, pc, err, steps, runs, prev>>
vars == <<nameVars, heap, tableVars, pipeVars>>

(* ------------------------------ bounds --------------------------------- *)
\* longest text given to clean_sample_name, largest replicate number
MaxLen == 5
MaxK == 12
\* most rows of a caller's frame with Target, Sample and Cq
MaxRows == 3
\* most rows of a caller's frame with base_sample and Cq
MaxKeyedRows == 3
\* most rows of a file
MaxFileRows == 2
\* invocations of summarize_target_from_file in one behaviour
MaxRuns == 2

(* ------------------------------ text ----------------------------------- *)
AsciiDigits == <<"0", "1", "2", "3", "4", "5", "6", "7", "8", "9">>

\* \d of the re module on a str pattern: any Unicode decimal digit
IsDigit(c) == c \in {AsciiDigits[i] : i \in 1..10} \cup {"U0663"}

\* str(k) for a positive int: decimal, most significant digit first
RECURSIVE str(_)
str(n) ==
  IF n < 10 THEN <<AsciiDigits[n + 1]>>
  ELSE Append(str(n \div 10), AsciiDigits[(n % 10) + 1])

\* $ without re.MULTILINE, at the position after index p: the end of the
\* string, or just before a line feed that is the last character
DollarAt(s, p) ==
  \/ p = Len(s)
  \/ p = Len(s) - 1 /\ s[Len(s)] = "\n"

\* end index of the match of _\d+$ that starts at index i, 0 when none:
\* \d+ is greedy and gives back digits until $ matches
MatchEnd(s, i) ==
  IF s[i] # "_" THEN 0
  ELSE LET run == {j \in (i + 1)..Len(s) : \A m \in (i + 1)..j : IsDigit(s[m])}
           ok == {j \in run : DollarAt(s, j)}
       IN IF ok = {} THEN 0 ELSE CHOOSE j \in ok : \A m \in ok : m <= j

\* re.sub(pattern, "", s): every non-overlapping match, leftmost first
RECURSIVE SubFrom(_, _)
SubFrom(s, pos) ==
  IF pos > Len(s) THEN <<>>
  ELSE LET e == MatchEnd(s, pos)
       IN IF e > 0 THEN SubFrom(s, e + 1)
          ELSE <<s[pos]>> \o SubFrom(s, pos + 1)

\* mutant: strips every trailing numeric segment instead of one
RECURSIVE clean_sample_name_all(_)
clean_sample_name_all(s) ==
  LET t == SubFrom(s, 1)
  IN IF t = s THEN s ELSE clean_sample_name_all(t)

clean_sample_name(s) == SubFrom(s, 1)

(* ------------------------------ tables -------------------------------- *)
\* A cell is a value or the missing value (pandas NaN).  A row maps the
\* frame's column names to cells; a frame is its column names and its rows.
NaN == [nan |-> TRUE]
Val(x) == [nan |-> FALSE, v |-> x]

\* elementwise == of pandas: a missing value equals nothing, itself included
eq(a, b) == ~a.nan /\ ~b.nan /\ a.v = b.v

Frame(cols, rows) == [cols |-> cols, rows |-> rows]

\* pd.DataFrame(): no columns, no rows
EmptyFrame == Frame({}, <<>>)

\* outcome of a call on the object heap h: a returned object or an exception
Return(h, id) == [ok |-> TRUE, heap |-> h, ret |-> id, exc |-> "", col |-> ""]
Raise(h, exc, col) == [ok |-> FALSE, heap |-> h, ret |-> 0, exc |-> exc, col |-> col]

\* df[mask]: the rows whose mask entry is true, in their order
RECURSIVE BooleanIndex(_, _, _)
BooleanIndex(rows, mask, i) ==
  IF i > Len(rows) THEN <<>>
  ELSE (IF mask[i] THEN <<rows[i]>> ELSE <<>>) \o BooleanIndex(rows, mask, i + 1)

\* mutant: Target compared without regard to case
filter_by_target_nocase(h, a, g) ==
  LET fold(c) == IF c.nan THEN c ELSE Val(IF c.v = "Actb" THEN "actb" ELSE c.v)
      fr == h[a]
  IN IF "Target" \notin fr.cols THEN Raise(h, "KeyError", "Target")
     ELSE LET mask == [i \in 1..Len(fr.rows) |->
                         eq(fold(fr.rows[i]["Target"]), fold(g))]
          IN Return(Append(h, Frame(fr.cols, BooleanIndex(fr.rows, mask, 1))),
                    Len(h) + 1)

\* df[df["Target"] == target_name].copy(): the selection is a new frame and
\* the copy another; only the copy is returned
filter_by_target(h, a, g) ==
  LET fr == h[a]
  IN IF "Target" \notin fr.cols THEN Raise(h, "KeyError", "Target")
     ELSE LET mask == [i \in 1..Len(fr.rows) |-> eq(fr.rows[i]["Target"], g)]
          IN Return(Append(h, Frame(fr.cols, BooleanIndex(fr.rows, mask, 1))),
                    Len(h) + 1)

\* the frame with base_sample set from Sample, row by row
WithBaseSample(fr) ==
  Frame(fr.cols \cup {"base_sample"},
        [i \in 1..Len(fr.rows) |->
           [c \in fr.cols \cup {"base_sample"} |->
              IF c = "base_sample" THEN Val(clean_sample_name(fr.rows[i]["Sample"].v))
              ELSE fr.rows[i][c]]])

\* mutant: df_out = df, the column is added to the caller's frame
add_base_sample_column_inplace(h, a) ==
  LET fr == h[a]
  IN IF "Sample" \notin fr.cols THEN Raise(h, "KeyError", "Sample")
     ELSE IF \E i \in 1..Len(fr.rows) : fr.rows[i]["Sample"].nan
          THEN Raise(h, "TypeError", "")
     ELSE Return([h EXCEPT ![a] = WithBaseSample(fr)], a)

\* df_out = df.copy(); df_out["base_sample"] = df_out["Sample"].apply(...)
\* re.sub raises TypeError on a cell that is not text
add_base_sample_column(h, a) ==
  LET fr == h[a]
  IN IF "Sample" \notin fr.cols THEN Raise(h, "KeyError", "Sample")
     ELSE IF \E i \in 1..Len(fr.rows) : fr.rows[i]["Sample"].nan
          THEN Raise(h, "TypeError", "")
     ELSE Return(Append(h, WithBaseSample(fr)), Len(h) + 1)

\* code point order of the characters used
CharOrder ==
  <<"\n", "0", "1", "2", "3", "4", "5", "6", "7", "8", "9", "A", "B", "_", "U0663">>

Ord(c) == CHOOSE i \in 1..Len(CharOrder) : CharOrder[i] = c

\* a < b for str
RECURSIVE StrLess(_, _)
StrLess(a, b) ==
  IF b = <<>> THEN FALSE
  ELSE IF a = <<>> THEN TRUE
  ELSE IF a[1] # b[1] THEN Ord(a[1]) < Ord(b[1])
  ELSE StrLess(Tail(a), Tail(b))

RECURSIVE Sorted(_)
Sorted(S) ==
  IF S = {} THEN <<>>
  ELSE LET m == CHOOSE x \in S : \A y \in S : x = y \/ StrLess(x, y)
       IN <<m>> \o Sorted(S \ {m})

RECURSIVE Sum(_)
Sum(xs) == IF xs = <<>> THEN 0 ELSE xs[1] + Sum(Tail(xs))

\* the Cq values of the rows of one group, missing ones skipped
RECURSIVE GroupValues(_, _, _)
GroupValues(rows, key, i) ==
  IF i > Len(rows) THEN <<>>
  ELSE (IF eq(rows[i]["base_sample"], Val(key)) /\ ~rows[i]["Cq"].nan
        THEN <<rows[i]["Cq"].v>> ELSE <<>>) \o GroupValues(rows, key, i + 1)

\* "mean": NaN for no value, else sum/count as the fraction num/den
Mean(xs) ==
  IF xs = <<>> THEN NaN ELSE Val([num |-> Sum(xs), den |-> Len(xs)])

\* "std" (ddof = 1): NaN for fewer than two values; else the cell holds the
\* variance sum((x - mean)^2) / (n - 1) as the fraction num/den, std being
\* its square root
Std(xs) ==
  IF Len(xs) < 2 THEN NaN
  ELSE LET n == Len(xs)
           sq == [i \in 1..n |-> xs[i] * xs[i]]
       IN Val([num |-> n * Sum(sq) - Sum(xs) * Sum(xs), den |-> n * (n - 1)])

SummaryCols == {"base_sample", "mean_cq", "std_cq", "n_reps"}

SummaryRow(rows, key) ==
  LET xs == GroupValues(rows, key, 1)
  IN [c \in SummaryCols |->
        CASE c = "base_sample" -> Val(key)
          [] c = "mean_cq" -> Mean(xs)
          [] c = "std_cq" -> Std(xs)
          [] c = "n_reps" -> Val(Len(xs))]

\* groupby("base_sample"): sort = True, dropna = True
GroupKeys(rows) ==
  Sorted({rows[i]["base_sample"].v :
            i \in {j \in 1..Len(rows) : ~rows[j]["base_sample"].nan}})

Summary(rows, keys) ==
  Frame(SummaryCols, [i \in 1..Len(keys) |-> SummaryRow(rows, keys[i])])

\* mutant: rows without a Cq value are dropped before grouping
summarize_duplicates_dropna(h, a) ==
  LET fr == h[a]
  IN IF "base_sample" \notin fr.cols THEN Raise(h, "KeyError", "base_sample")
     ELSE IF "Cq" \notin fr.cols THEN Raise(h, "KeyError", "Cq")
     ELSE LET kept == BooleanIndex(fr.rows,
                        [i \in 1..Len(fr.rows) |-> ~fr.rows[i]["Cq"].nan], 1)
          IN Return(Append(h, Summary(kept, GroupKeys(kept))), Len(h) + 1)

summarize_duplicates(h, a) ==
  LET fr == h[a]
  IN IF "base_sample" \notin fr.cols THEN Raise(h, "KeyError", "base_sample")
     ELSE IF "Cq" \notin fr.cols THEN Raise(h, "KeyError", "Cq")
     ELSE Return(Append(h, Summary(fr.rows, GroupKeys(fr.rows))), Len(h) + 1)

(* ------------------------- clean_sample_name calls --------------------- *)
Chars == {"A", "_", "1", "2", "\n", "U0663"}

RECURSIVE TextsOfLen(_)
TextsOfLen(n) ==
  IF n = 0 THEN {<<>>}
  ELSE {Append(t, c) : t \in TextsOfLen(n - 1), c \in Chars}

Texts == UNION {TextsOfLen(n) : n \in 0..MaxLen}

\* no frame exists and no table function or pipeline call is under way
TablesIdle ==
  /\ orig = EmptyFrame
  /\ cur = 0 /\ arg = 0 /\ ret = 0
  /\ snap = EmptyFrame
  /\ gArg = NaN
  /\ done = {}
  /\ status = "off"
  /\ lastOp = "none"
  /\ outcome = Return(<<>>, 0)
  /\ parts = <<>>

PipelineIdle ==
  /\ file = [readable |-> FALSE, table |-> EmptyFrame]
  /\ target_name = ""
  /\ df = 0 /\ df_target = 0 /\ result = 0
  /\ pc = "off"
  /\ err = [exc |-> "", col |-> ""]
  /\ steps = <<>>
  /\ runs = 0
  /\ prev = [pc |-> "none", err |-> [exc |-> "", col |-> ""], table |-> EmptyFrame]

NameIdle ==
  /\ stem = <<>> /\ rep = 1
  /\ sample_name = <<>> /\ cleaned = <<>>
  /\ pcName = "off"

InitName ==
  /\ stem \in Texts
  /\ rep = 1
  /\ sample_name = <<>>
  /\ cleaned = <<>>
  /\ pcName = "ready"
  /\ heap = <<>>
  /\ TablesIdle
  /\ PipelineIdle

\* clean_sample_name(stem)
CleanStem ==
  /\ pcName = "ready"
  /\ pcName' = "returned"
  /\ sample_name' = stem
  /\ cleaned' = clean_sample_name(stem)
  /\ UNCHANGED <<stem, rep, heap, tableVars, pipeVars>>

\* clean_sample_name(stem + "_" + str(k)) for a positive integer k
CleanReplicate ==
  /\ pcName = "ready"
  /\ pcName' = "returned"
  /\ \E k \in 1..MaxK :
       /\ rep' = k
       /\ sample_name' = stem \o <<"_">> \o str(k)
       /\ cleaned' = clean_sample_name(stem \o <<"_">> \o str(k))
  /\ UNCHANGED <<stem, heap, tableVars, pipeVars>>

NextName == CleanStem \/ CleanReplicate

SpecName == InitName /\ [][NextName]_vars

(* ----------------------- calls of the table functions ------------------ *)
A == <<"A">>
A_1 == <<"A", "_", "1">>
B_2 == <<"B", "_", "2">>
B == <<"B">>

TargetCells == {Val("Actb"), Val("actb"), NaN}

RECURSIVE SeqsUpTo(_, _)
SeqsUpTo(S, n) ==
  IF n = 0 THEN {<<>>}
  ELSE LET shorter == SeqsUpTo(S, n - 1)
       IN shorter \cup {Append(s, x) : s \in {q \in shorter : Len(q) = n - 1}, x \in S}

\* a caller's frames: raw measurements, or rows that already carry base_sample
RawFrames ==
  {Frame({"Target", "Sample", "Cq"}, rows) :
     rows \in SeqsUpTo([Target : TargetCells,
                        Sample : {Val(A), Val(A_1), Val(B_2)},
                        Cq : {Val(20), NaN}], MaxRows)}

KeyedFrames ==
  {Frame({"base_sample", "Cq"}, rows) :
     rows \in SeqsUpTo([base_sample : {Val(A), Val(B), NaN},
                        Cq : {Val(20), Val(22), NaN}], MaxKeyedRows)}

InitTable ==
  /\ NameIdle
  /\ PipelineIdle
  /\ \E f \in RawFrames \cup KeyedFrames :
       /\ heap = <<f>>
       /\ orig = f
       /\ snap = f
  /\ cur = 1 /\ arg = 0 /\ ret = 0
  /\ gArg = NaN
  /\ done = {}
  /\ status = "ready"
  /\ lastOp = "none"
  /\ outcome = Return(<<>>, 0)
  /\ parts = <<>>

\* the caller applies one table function to the frame it holds (cur) and
\* keeps what is returned; an exception ends the caller
Applied(op, g, r) ==
  /\ status = "ready"
  /\ op \notin done
  /\ done' = done \cup {op}
  /\ lastOp' = op
  /\ gArg' = g
  /\ arg' = cur
  /\ snap' = heap[cur]
  /\ heap' = r.heap
  /\ ret' = r.ret
  /\ cur' = IF r.ok THEN r.ret ELSE cur
  /\ status' = IF r.ok THEN "ready" ELSE "raised"
  /\ outcome' = [r EXCEPT !.heap = <<>>]
  /\ UNCHANGED <<orig, parts, nameVars, pipeVars>>

CallFilter ==
  \E g \in {"Actb", "actb"} :
    Applied("filter_by_target", Val(g), filter_by_target(heap, cur, Val(g)))

CallAddBaseSample ==
  Applied("add_base_sample_column", NaN, add_base_sample_column(heap, cur))

CallSummarize ==
  Applied("summarize_duplicates", NaN, summarize_duplicates(heap, cur))

\* df["Target"].unique(): the distinct cells in order of first appearance,
\* the missing value counted once
RECURSIVE Unique(_, _)
Unique(rows, seen) ==
  IF rows = <<>> THEN <<>>
  ELSE IF rows[1]["Target"] \in seen THEN Unique(Tail(rows), seen)
  ELSE <<rows[1]["Target"]>> \o Unique(Tail(rows), seen \cup {rows[1]["Target"]})

\* for g in df["Target"].unique(): parts.append((g, filter_by_target(df, g)))
RECURSIVE FilterEach(_, _, _, _)
FilterEach(h, a, gs, acc) ==
  IF gs = <<>> THEN [heap |-> h, parts |-> acc]
  ELSE LET r == filter_by_target(h, a, gs[1])
       IN FilterEach(r.heap, a, Tail(gs), Append(acc, [g |-> gs[1], id |-> r.ret]))

\* the caller splits its frame by Target, one filter_by_target call per
\* distinct Target value present
SplitByTarget ==
  /\ status = "ready"
  /\ done = {}
  /\ "Target" \in heap[cur].cols
  /\ LET r == FilterEach(heap, cur, Unique(heap[cur].rows, {}), <<>>)
     IN /\ heap' = r.heap
        /\ parts' = r.parts
  /\ arg' = cur
  /\ snap' = heap[cur]
  /\ lastOp' = "split"
  /\ status' = "split"
  /\ UNCHANGED <<orig, cur, ret, gArg, done, outcome, nameVars, pipeVars>>

\* a later change to the frame a Filter or Normalizer call returned: the
\* caller blanks every cell of it and adds a column
Blanked(f) ==
  Frame(f.cols \cup {"note"},
        [i \in 1..Len(f.rows) |-> [c \in f.cols \cup {"note"} |-> NaN]])

ChangeReturned ==
  /\ status = "ready"
  /\ lastOp \in {"filter_by_target", "add_base_sample_column"}
  /\ heap' = [heap EXCEPT ![ret] = Blanked(heap[ret])]
  /\ status' = "changed"
  /\ UNCHANGED <<orig, cur, arg, ret, snap, gArg, done, lastOp, outcome, parts,
                 nameVars, pipeVars>>

NextTable ==
  \/ CallFilter
  \/ CallAddBaseSample
  \/ CallSummarize
  \/ SplitByTarget
  \/ ChangeReturned

SpecTable == InitTable /\ [][NextTable]_vars

(* ---------------------- summarize_target_from_file ---------------------- *)
\* A file is unreadable, or holds what pd.read_csv makes of it: a frame with
\* the columns of its header row.
FileRows(cols) ==
  {[c \in cols |-> r[c]] :
     r \in [Target : TargetCells, Sample : {Val(A_1), Val(B_2), NaN}, Cq : {Val(20), NaN}]}

Files ==
  {[readable |-> FALSE, table |-> EmptyFrame]} \cup
  UNION {{[readable |-> TRUE, table |-> Frame(cols, rows)] :
            rows \in SeqsUpTo(FileRows(cols), MaxFileRows)} :
         cols \in SUBSET {"Target", "Sample", "Cq"}}

\* mutant: the rows read are appended to the frame of the first load
load_qpcr_csv_concat(h, f) ==
  IF ~f.readable THEN Raise(h, "OSError", "")
  ELSE Return(Append(h, IF h = <<>> THEN f.table
                        ELSE Frame(f.table.cols, h[1].rows \o f.table.rows)),
              Len(h) + 1)

\* pd.read_csv(filename): a new frame at every call, or the reader's error
load_qpcr_csv(h, f) ==
  IF ~f.readable THEN Raise(h, "OSError", "")
  ELSE Return(Append(h, f.table), Len(h) + 1)

\* mutant: Sample is not among the columns validated
RequiredNoSample == <<"Target", "Cq">>

\* for col in ("Target", "Sample", "Cq")
Required == <<"Target", "Sample", "Cq">>

\* the first required column that the frame lacks, "" when it has them all
FirstMissing(cols) ==
  LET miss == {i \in 1..Len(Required) : Required[i] \notin cols}
  IN IF miss = {} THEN ""
     ELSE Required[CHOOSE i \in miss : \A j \in miss : i <= j]

\* mutant: only the column axis is tested
empty_columns(f) == f.cols = {}

\* DataFrame.empty: an axis of length 0
empty(f) == f.rows = <<>> \/ f.cols = {}

NoErr == [exc |-> "", col |-> ""]

InitPipe ==
  /\ NameIdle
  /\ TablesIdle
  /\ heap = <<>>
  /\ file \in Files
  /\ target_name \in {"Actb", "actb"}
  /\ df = 0 /\ df_target = 0 /\ result = 0
  /\ pc = "idle"
  /\ err = NoErr
  /\ steps = <<>>
  /\ runs = 0
  /\ prev = [pc |-> "none", err |-> NoErr, table |-> EmptyFrame]

Finished == pc \in {"done", "raised"}

\* line 147: a call starts with fresh locals and loads the file
Load ==
  /\ pc = "idle" \/ (Finished /\ runs < MaxRuns)
  /\ runs' = runs + 1
  /\ prev' = IF pc = "idle" THEN prev
             ELSE [pc |-> pc, err |-> err,
                   table |-> IF pc = "done" THEN heap[result] ELSE EmptyFrame]
  /\ LET r == load_qpcr_csv(heap, file)
     IN /\ heap' = r.heap
        /\ df' = r.ret
        /\ pc' = IF r.ok THEN "loaded" ELSE "raised"
        /\ err' = [exc |-> r.exc, col |-> r.col]
  /\ df_target' = 0
  /\ result' = 0
  /\ steps' = <<"load">>
  /\ UNCHANGED <<file, target_name, nameVars, tableVars>>

\* lines 150-152
Validate ==
  /\ pc = "loaded"
  /\ steps' = Append(steps, "validate")
  /\ LET col == FirstMissing(heap[df].cols)
     IN IF col = ""
        THEN pc' = "validated" /\ err' = err
        ELSE pc' = "raised" /\ err' = [exc |-> "KeyError", col |-> col]
  /\ UNCHANGED <<heap, file, target_name, df, df_target, result, runs, prev,
                 nameVars, tableVars>>

\* lines 154-156
Filter ==
  /\ pc = "validated"
  /\ steps' = Append(steps, "filter")
  /\ LET r == filter_by_target(heap, df, Val(target_name))
     IN IF ~r.ok
        THEN /\ pc' = "raised" /\ err' = [exc |-> r.exc, col |-> r.col]
             /\ UNCHANGED <<heap, df_target, result>>
        ELSE /\ df_target' = r.ret
             /\ err' = err
             /\ IF empty(r.heap[r.ret])
                THEN /\ heap' = Append(r.heap, EmptyFrame)
                     /\ result' = Len(r.heap) + 1
                     /\ pc' = "done"
                ELSE /\ heap' = r.heap
                     /\ pc' = "filtered"
                     /\ UNCHANGED result
  /\ UNCHANGED <<file, target_name, df, runs, prev, nameVars, tableVars>>

\* line 158
Normalize ==
  /\ pc = "filtered"
  /\ steps' = Append(steps, "normalize")
  /\ LET r == add_base_sample_column(heap, df_target)
     IN /\ heap' = r.heap
        /\ df_target' = IF r.ok THEN r.ret ELSE df_target
        /\ pc' = IF r.ok THEN "normalized" ELSE "raised"
        /\ err' = [exc |-> r.exc, col |-> r.col]
  /\ UNCHANGED <<file, target_name, df, result, runs, prev, nameVars, tableVars>>

\* line 159
Aggregate ==
  /\ pc = "normalized"
  /\ steps' = Append(steps, "aggregate")
  /\ LET r == summarize_duplicates(heap, df_target)
     IN /\ heap' = r.heap
        /\ result' = r.ret
        /\ pc' = IF r.ok THEN "done" ELSE "raised"
        /\ err' = [exc |-> r.exc, col |-> r.col]
  /\ UNCHANGED <<file, target_name, df, df_target, runs, prev, nameVars, tableVars>>

NextPipe == Load \/ Validate \/ Filter \/ Normalize \/ Aggregate

SpecPipe == InitPipe /\ [][NextPipe]_vars

(* ------------------------ claims: name normaliser ---------------------- *)
\* number of decimal digits at the end of s
RECURSIVE TrailingDigits(_)
TrailingDigits(s) ==
  IF s = <<>> \/ ~IsDigit(s[Len(s)]) THEN 0
  ELSE 1 + TrailingDigits(SubSeq(s, 1, Len(s) - 1))

\* s ends with an underscore followed by one or more decimal digits
HasReplicateSuffix(s) ==
  /\ TrailingDigits(s) >= 1
  /\ Len(s) > TrailingDigits(s)
  /\ s[Len(s) - TrailingDigits(s)] = "_"

WithoutSuffix(s) == SubSeq(s, 1, Len(s) - TrailingDigits(s) - 1)

Called == pcName = "returned"

\* C1: a name that ends with "_" and one or more decimal digits comes back
\* with exactly that suffix removed; stem + "_" + str(rep) comes back as stem
\* when stem has no such suffix; only the last numeric segment is removed.
C1_StripsOneSuffix ==
  Called /\ HasReplicateSuffix(sample_name) =>
    /\ cleaned = WithoutSuffix(sample_name)
    /\ cleaned \o SubSeq(sample_name, Len(cleaned) + 1, Len(sample_name)) = sample_name
    /\ (sample_name = stem \o <<"_">> \o str(rep) /\ ~HasReplicateSuffix(stem))
         => cleaned = stem

\* a name with two numeric segments has been cleaned
C1_Witness ==
  /\ Called
  /\ sample_name = <<"A", "_", "1", "_", "2">>
  /\ cleaned = <<"A", "_", "1">>

\* C2: a text that does not end with "_" and one or more decimal digits comes
\* back unchanged (the call always returns a text).
C2_NoSuffixUnchanged ==
  Called /\ ~HasReplicateSuffix(sample_name) =>
    cleaned = sample_name

(* ------------------------ claims: table functions ---------------------- *)
\* how many rows of a frame's rows are the row r
Count(rows, r) == Cardinality({i \in 1..Len(rows) : rows[i] = r})

RECURSIVE CountInParts(_, _)
CountInParts(ps, r) ==
  IF ps = <<>> THEN 0
  ELSE Count(heap[ps[1].id].rows, r) + CountInParts(Tail(ps), r)

\* the rows of a frame whose Target is the text g, in their order
RowsWithTarget(rows, g) ==
  LET Keep(r) == ~r["Target"].nan /\ r["Target"].v = g.v
  IN IF g.nan THEN <<>> ELSE SelectSeq(rows, Keep)

Filtered == status = "ready" /\ lastOp = "filter_by_target" /\ outcome.ok

FilterIsExact ==
  /\ Filtered => heap[ret] = Frame(snap.cols, RowsWithTarget(snap.rows, gArg))
  /\ status = "split" =>
       \A k \in 1..Len(parts) :
         heap[parts[k].id] = Frame(snap.cols, RowsWithTarget(snap.rows, parts[k].g))

PartsDisjoint ==
  status = "split" =>
    \A k, m \in 1..Len(parts) :
      k # m => \A i \in 1..Len(heap[parts[k].id].rows) :
                 Count(heap[parts[m].id].rows, heap[parts[k].id].rows[i]) = 0

\* C3 as stated: filter_by_target(T, g) holds exactly the rows of T whose
\* Target equals g, in order, and the results over all distinct Target values
\* present in T are pairwise disjoint and together hold every row of T exactly
\* once, rows whose Target is missing included.
C3_PartitionAllRows ==
  /\ FilterIsExact
  /\ PartsDisjoint
  /\ status = "split" =>
       \A i \in 1..Len(snap.rows) :
         CountInParts(parts, snap.rows[i]) = Count(snap.rows, snap.rows[i])

\* C3 amended: as above, but the results together hold exactly once every row
\* of T whose Target is present; a row whose Target is missing is in none.
C3_PartitionPresentTargets ==
  /\ FilterIsExact
  /\ PartsDisjoint
  /\ status = "split" =>
       \A i \in 1..Len(snap.rows) :
         CountInParts(parts, snap.rows[i]) =
           IF snap.rows[i]["Target"].nan THEN 0 ELSE Count(snap.rows, snap.rows[i])

\* a frame with two Target values and a row without Target was split: two
\* non-empty results and an empty one for the missing value
C3_Witness ==
  /\ status = "split"
  /\ Len(parts) = 3
  /\ \E i \in 1..Len(snap.rows) : snap.rows[i]["Target"].nan
  /\ \A k \in 1..Len(parts) : heap[parts[k].id].rows = <<>> <=> parts[k].g.nan

Summarized == lastOp = "summarize_duplicates" /\ outcome.ok

\* the input rows (by position) whose base_sample is the key of a summary row
Members(key) ==
  {j \in 1..Len(snap.rows) : eq(snap.rows[j]["base_sample"], key)}

\* C4: n_reps of every summary row is the number of input rows with that
\* row's base_sample, hence at least 1, also when Cq values are missing.
C4_NRepsCountsRows ==
  Summarized =>
    \A i \in 1..Len(heap[ret].rows) :
      LET row == heap[ret].rows[i]
      IN /\ row["n_reps"].v = Cardinality(Members(row["base_sample"]))
         /\ row["n_reps"].v >= 1

\* the base_sample values (missing is not a value) of the input rows
InputKeys ==
  {snap.rows[j]["base_sample"] :
     j \in {m \in 1..Len(snap.rows) : ~snap.rows[m]["base_sample"].nan}}

\* C5: the summary has exactly one row per distinct base_sample value of the
\* input: the same set of values, none of them in two rows.
C5_OneRowPerBaseSample ==
  Summarized =>
    LET out == heap[ret].rows
    IN /\ heap[ret].cols = SummaryCols
       /\ {out[i]["base_sample"] : i \in 1..Len(out)} = InputKeys
       /\ \A i, j \in 1..Len(out) :
            out[i]["base_sample"] = out[j]["base_sample"] => i = j

\* samples "A" and "A_1" were normalised and summarised into one row
C5_Witness ==
  /\ Summarized
  /\ "Sample" \in snap.cols
  /\ \E i, j \in 1..Len(snap.rows) :
       snap.rows[i]["Sample"] = Val(A) /\ snap.rows[j]["Sample"] = Val(A_1)
  /\ Len(heap[ret].rows) = 1

\* sum over a group of (n * x - sum)^2, which is n^2 * sum((x - mean)^2)
RECURSIVE SquaredDeviations(_, _, _)
SquaredDeviations(xs, n, total) ==
  IF xs = <<>> THEN 0
  ELSE (n * xs[1] - total) * (n * xs[1] - total)
       + SquaredDeviations(Tail(xs), n, total)

\* C6: a group with exactly one member has a summary row whose std_cq is NaN,
\* whose mean_cq is the member's Cq and whose n_reps is 1; a standard
\* deviation that is defined has divisor n - 1.
C6_SingletonGroup ==
  Summarized =>
    /\ \A key \in InputKeys :
         Cardinality(Members(key)) = 1 =>
           \E i \in 1..Len(heap[ret].rows) :
             LET row == heap[ret].rows[i]
                 cq == snap.rows[CHOOSE j \in Members(key) : TRUE]["Cq"]
             IN /\ row["base_sample"] = key
                /\ row["std_cq"].nan
                /\ row["mean_cq"].nan = cq.nan
                /\ ~cq.nan => row["mean_cq"].v.num = cq.v * row["mean_cq"].v.den
                /\ row["n_reps"] = Val(1)
    /\ \A i \in 1..Len(heap[ret].rows) :
         LET row == heap[ret].rows[i]
             xs == GroupValues(snap.rows, row["base_sample"].v, 1)
             n == Len(xs)
         IN ~row["std_cq"].nan =>
              row["std_cq"].v.num * n * n * (n - 1)
                = row["std_cq"].v.den * SquaredDeviations(xs, n, Sum(xs))

\* C9: filter_by_target, add_base_sample_column and summarize_duplicates
\* leave their argument as it was; what the first two return is another
\* object, and a later change to it changes neither the argument nor the
\* caller's original frame.
C9_InputUnchanged ==
  /\ heap[1] = orig
  /\ lastOp # "none" =>
       /\ heap[arg] = snap
       /\ outcome.ok => ret # arg
  /\ \A k \in 1..Len(parts) : parts[k].id # arg

\* the frame returned by add_base_sample_column was changed afterwards
C9_Witness ==
  /\ status = "changed"
  /\ lastOp = "add_base_sample_column"
  /\ snap.rows # <<>>
  /\ heap[ret] # WithBaseSample(snap)
  /\ "base_sample" \notin heap[arg].cols

(* --------------------------- claims: pipeline -------------------------- *)
Loaded == pc \notin {"idle", "off"} /\ df # 0

LacksColumn == Loaded /\ {"Target", "Sample", "Cq"} \ heap[df].cols # {}

\* C7: when the loaded frame lacks Target, Sample or Cq the call fails with a
\* KeyError naming a column the frame lacks, after the load and before the
\* filter, normalise and aggregate steps, whatever the target.
C7_MissingColumnFailsEarly ==
  LacksColumn /\ pc # "loaded" =>
    /\ pc = "raised"
    /\ err.exc = "KeyError"
    /\ err.col \in {"Target", "Sample", "Cq"} \ heap[df].cols
    /\ steps = <<"load", "validate">>
    /\ df_target = 0 /\ result = 0

\* a file with rows of the target but no Sample column was rejected
C7_Witness ==
  /\ pc = "raised"
  /\ err = [exc |-> "KeyError", col |-> "Sample"]
  /\ "Target" \in heap[df].cols
  /\ \E i \in 1..Len(heap[df].rows) : heap[df].rows[i]["Target"] = Val(target_name)

ValidFile == Loaded /\ {"Target", "Sample", "Cq"} \subseteq heap[df].cols

Matches ==
  {i \in 1..Len(heap[df].rows) : heap[df].rows[i]["Target"] = Val(target_name)}

\* C8: on a valid file without a row of the target the call raises nothing and
\* returns a frame with no rows and no columns, the normalise and aggregate
\* steps not run; when it returns with a row matching, the result is the
\* aggregator's frame with columns base_sample, mean_cq, std_cq, n_reps.
C8_EmptyResultWhenNoMatch ==
  /\ ValidFile /\ Matches = {} /\ pc \notin {"loaded", "validated"} =>
       /\ pc = "done"
       /\ heap[result] = EmptyFrame
       /\ steps = <<"load", "validate", "filter">>
  /\ ValidFile /\ Matches # {} /\ pc = "done" =>
       /\ heap[result].cols = {"base_sample", "mean_cq", "std_cq", "n_reps"}
       /\ heap[result].rows # <<>>
       /\ steps = <<"load", "validate", "filter", "normalize", "aggregate">>

\* a valid file with rows, none of the target, gave the empty frame
C8_Witness ==
  /\ pc = "done"
  /\ ValidFile
  /\ heap[df].rows # <<>>
  /\ Matches = {}
  /\ heap[result] = EmptyFrame

\* C10: a second call on the same file and target returns the same summary
\* as the first: same rows, same values, same order.
C10_SecondRunSame ==
  runs >= 2 /\ Finished =>
    /\ prev.pc = pc
    /\ prev.err = err
    /\ pc = "done" => heap[result] = prev.table

\* a second call returned a summary with a row
C10_Witness ==
  /\ runs = 2
  /\ pc = "done"
  /\ heap[result].rows # <<>>
  /\ heap[result] = prev.table

====
